---- MODULE Spec2Model ----
(***************************************************************************)
(* Model of src/main.py: the Cloud Functions entry point slack_bot, the    *)
(* Slack listener handle_app_mention_events, save_conversation, and the    *)
(* process-wide agent memory.  Texts are sequences of one-character        *)
(* strings so that the regular expression and json.dumps act on them.      *)
(***************************************************************************)
EXTENDS Integers, Sequences, FiniteSets, TLC

(***************************************************************************)
(* Bounds of the model.                                                    *)
(***************************************************************************)
\* number of requests one instance receives in Spec
MaxDeliveries == 2
\* number of pieces a raw text of SpecNorm is assembled from
MaxPieces == 4
\* number of requests one instance receives in SpecMem
MaxTurns == 7

(***************************************************************************)
(* Program constants.                                                      *)
(***************************************************************************)
\* ConversationBufferWindowMemory(k= 5)
K == 5
\* the repetition count of "<@[a-zA-Z0-9]{11}>"
TokenIdLen == 11
\* the status of "return (res, 200, headers)"
HandshakeStatus == 200
\* the value under "statusCode" in the retry acknowledgement
RetryStatusCode == 200

\* the requests an instance handles at the same time
Requests == {1, 2}

(***************************************************************************)
(* Characters and texts.                                                   *)
(***************************************************************************)
\* the character class [a-zA-Z0-9]
Alnum ==
  { "a","b","c","d","e","f","g","h","i","j","k","l","m","n","o","p","q","r",
    "s","t","u","v","w","x","y","z",
    "A","B","C","D","E","F","G","H","I","J","K","L","M","N","O","P","Q","R",
    "S","T","U","V","W","X","Y","Z",
    "0","1","2","3","4","5","6","7","8","9" }

\* a plausible slip: the pattern "<@[a-zA-Z0-9]{10,11}>"
MatchAtLoose(s, i) ==
  \E n \in {TokenIdLen - 1, TokenIdLen} :
    /\ i + n + 2 <= Len(s)
    /\ s[i] = "<"
    /\ s[i + 1] = "@"
    /\ \A j \in 2..(n + 1) : s[i + j] \in Alnum
    /\ s[i + n + 2] = ">"

\* re: does "<@[a-zA-Z0-9]{11}>" match s at position i
MatchAt(s, i) ==
  /\ i + TokenIdLen + 2 <= Len(s)
  /\ s[i] = "<"
  /\ s[i + 1] = "@"
  /\ \A j \in 2..(TokenIdLen + 1) : s[i + j] \in Alnum
  /\ s[i + TokenIdLen + 2] = ">"

RECURSIVE SubFrom(_, _)
SubFrom(s, i) ==
  IF i > Len(s) THEN <<>>
  ELSE IF MatchAt(s, i) THEN SubFrom(s, i + TokenIdLen + 3)
  ELSE <<s[i]>> \o SubFrom(s, i + 1)

\* a plausible slip: only the first match is removed (count=1)
RECURSIVE SubFirstFrom(_, _)
SubFirstFrom(s, i) ==
  IF i > Len(s) THEN <<>>
  ELSE IF MatchAt(s, i) THEN SubSeq(s, i + TokenIdLen + 3, Len(s))
  ELSE <<s[i]>> \o SubFirstFrom(s, i + 1)

ReSubFirst(s) == SubFirstFrom(s, 1)

\* re.sub("<@[a-zA-Z0-9]{11}>", "", text): one left-to-right pass that drops
\* every non-overlapping match
ReSub(s) == SubFrom(s, 1)

(***************************************************************************)
(* json.dumps({"challenge": c}) and its reading back.  A string is written *)
(* between quotes with '"' and '\' escaped and, ensure_ascii being the     *)
(* default, every non-ASCII character as \uXXXX.  "U+3042" stands for the  *)
(* one non-ASCII character of the model.                                   *)
(***************************************************************************)
NonAscii == "U+3042"
NonAsciiHex == <<"3", "0", "4", "2">>

JsonEscapeChar(c) ==
  IF c = "\"" THEN <<"\\", "\"">>
  ELSE IF c = "\\" THEN <<"\\", "\\">>
  ELSE IF c = NonAscii THEN <<"\\", "u">> \o NonAsciiHex
  ELSE <<c>>

RECURSIVE JsonEscape(_)
JsonEscape(s) ==
  IF s = <<>> THEN <<>> ELSE JsonEscapeChar(Head(s)) \o JsonEscape(Tail(s))

\* a plausible slip: the string is pasted between the quotes unescaped
JsonDumpsStrRaw(s) == <<"\"">> \o s \o <<"\"">>

\* json.dumps of a str
JsonDumpsStr(s) == <<"\"">> \o JsonEscape(s) \o <<"\"">>

ChallengeKey == <<"{", "\"", "c", "h", "a", "l", "l", "e", "n", "g", "e", "\"", ":", " ">>

\* json.dumps({"challenge": c})
JsonDumpsChallenge(c) == ChallengeKey \o JsonDumpsStr(c) \o <<"}">>

\* The reader of a JSON string literal: from position i (after the opening
\* quote) to the closing quote.  <<ok, value, next position>>.
RECURSIVE JsonReadStr(_, _, _)
JsonReadStr(t, i, acc) ==
  IF i > Len(t) THEN <<FALSE, acc, i>>
  ELSE IF t[i] = "\"" THEN <<TRUE, acc, i + 1>>
  ELSE IF t[i] = "\\" THEN
    IF i + 1 > Len(t) THEN <<FALSE, acc, i>>
    ELSE IF t[i + 1] \in {"\"", "\\"} THEN JsonReadStr(t, i + 2, Append(acc, t[i + 1]))
    ELSE IF t[i + 1] = "u" /\ i + 5 <= Len(t) /\ SubSeq(t, i + 2, i + 5) = NonAsciiHex
      THEN JsonReadStr(t, i + 6, Append(acc, NonAscii))
    ELSE <<FALSE, acc, i>>
  ELSE JsonReadStr(t, i + 1, Append(acc, t[i]))

\* The "challenge" member of a JSON text of the shape {"challenge": "..."}:
\* <<TRUE, value>>, or <<FALSE, <<>>>> when the text is not such a document.
JsonLoadsChallenge(t) ==
  LET n == Len(ChallengeKey) IN
  IF Len(t) < n + 1 \/ SubSeq(t, 1, n) # ChallengeKey \/ t[n + 1] # "\""
  THEN <<FALSE, <<>>>>
  ELSE LET r == JsonReadStr(t, n + 2, <<>>) IN
       IF r[1] /\ r[3] = Len(t) /\ t[r[3]] = "}" THEN <<TRUE, r[2]>>
       ELSE <<FALSE, <<>>>>

(***************************************************************************)
(* Inputs: request bodies and headers.  A body is the JSON object of the   *)
(* request; has_* tell which keys it carries.                              *)
(***************************************************************************)
LtAt == <<"<", "@">>
Gt == <<">">>
\* eleven alphanumeric characters
Id11 == <<"U", "0", "X", "X", "X", "X", "X", "X", "X", "X", "X">>
\* ten alphanumeric characters
Id10 == <<"U", "0", "X", "X", "X", "X", "X", "X", "X", "X">>
Hello == <<" ", "h", "e", "l", "l", "o">>

\* "<@U0XXXXXXXX> hello": the mention carries ten characters
ScenarioText == LtAt \o Id10 \o Gt \o Hello
\* "<@U0XXXXXXXXX> hello": the mention carries eleven characters
MentionText == LtAt \o Id11 \o Gt \o Hello

UserIds == {"U123", "U456"}
EventTexts == {ScenarioText, MentionText}
Challenges == { <<"3", "e", "Z">>, <<"a", "\"", "\\">>, <<NonAscii>> }
\* what agent.run may return; KONNICHIWA stands for the Japanese greeting
AgentOutputs == {"KONNICHIWA", "HAI"}

HandshakeBody(has, c) ==
  [type |-> "url_verification", has_challenge |-> has, challenge |-> c,
   has_user |-> FALSE, user |-> "", has_text |-> FALSE, text |-> <<>>]

EventBody(hu, u, ht, t) ==
  [type |-> "event_callback", has_challenge |-> FALSE, challenge |-> <<>>,
   has_user |-> hu, user |-> u, has_text |-> ht, text |-> t]

Bodies ==
  {HandshakeBody(TRUE, c) : c \in Challenges}
    \cup {HandshakeBody(FALSE, <<>>)}
    \cup {EventBody(TRUE, "U123", TRUE, t) : t \in EventTexts}
    \cup {EventBody(TRUE, "U456", TRUE, MentionText)}
    \cup {EventBody(FALSE, "", TRUE, ScenarioText), EventBody(TRUE, "U123", FALSE, <<>>)}

\* the x-slack-retry-num header: absent, present and empty, present with "1"
Headers ==
  { [present |-> FALSE, value |-> ""],
    [present |-> TRUE, value |-> ""],
    [present |-> TRUE, value |-> "1"] }

NoBody == EventBody(FALSE, "", FALSE, <<>>)
NoHeader == [present |-> FALSE, value |-> ""]

(***************************************************************************)
(* State.                                                                  *)
(***************************************************************************)
VARIABLES
  req,              \* req[r]: the body and header of the request in slot r
  pc,               \* pc[r]: where request r stands in slack_bot and the listener
  user,             \* the listener's local user
  only_text,        \* the listener's local only_text
  openai_response,  \* the listener's local openai_response
  context,          \* the memory window agent.run loaded for request r
  memory,           \* the process-wide ConversationBufferWindowMemory: all turns
  store,            \* db.collection("testChat"): the documents under each user id
  said,             \* the replies request r sent with say
  ret,              \* what slack_bot returned for request r
  trace,            \* history: the steps request r has completed, in order
  failed,           \* history: the step at which request r raised
  lastSave,         \* history: the arguments of the last write for each user
  turns             \* the number of requests received so far

vars == <<req, pc, user, only_text, openai_response, context, memory, store,
          said, ret, trace, failed, lastSave, turns>>

NoRet == [kind |-> "none", status |-> 0, ctype |-> "", res |-> <<>>, body |-> ""]

\* return (res, 200, headers) with headers = {"Content-Type": "application/json"}
HandshakeResponse(body) ==
  [kind |-> "tuple", status |-> HandshakeStatus, ctype |-> "application/json",
   res |-> JsonDumpsChallenge(body.challenge), body |-> ""]

\* a plausible slip: the acknowledgement asks for the resend it should stop
RetryResponseResend ==
  [kind |-> "dict", status |-> RetryStatusCode, ctype |-> "application/json",
   res |-> <<>>, body |-> "{\"message\": \"resend\"}"]

\* return {"statusCode": 200, "body": json.dumps({"message": "No need to resend"})};
\* the framework serves a returned mapping as JSON with status 200
RetryResponse ==
  [kind |-> "dict", status |-> RetryStatusCode, ctype |-> "application/json",
   res |-> <<>>, body |-> "{\"message\": \"No need to resend\"}"]

\* the response of handler.handle(request): 200 once the listener returned,
\* 500 when the listener raised
BoltResponse(ok) ==
  [kind |-> "bolt", status |-> IF ok THEN 200 ELSE 500, ctype |-> "",
   res |-> <<>>, body |-> ""]

\* an exception that leaves slack_bot itself: the framework answers 500
UnhandledResponse ==
  [kind |-> "error", status |-> 500, ctype |-> "", res |-> <<>>, body |-> ""]

\* a plausible slip: the header is looked up under another name and never found
RetryHeaderMisnamed(h) == h.present /\ FALSE

\* header.get("x-slack-retry-num") in a condition: None and "" are false
RetryHeaderTruthy(h) == h.present /\ h.value # ""

\* body.get("type") == "url_verification"
IsUrlVerification(b) == b.type = "url_verification"

\* a plausible slip: a ConversationBufferMemory, which hands out every turn
WindowAll(mem) == mem

\* memory.load_memory_variables: the last K turns
Window(mem) ==
  IF Len(mem) <= K THEN mem ELSE SubSeq(mem, Len(mem) - K + 1, Len(mem))

\* memory.save_context: the turn is added to the one shared buffer
MemorySave(mem, turn) == Append(mem, turn)

\* the dictionary handed to doc_ref.set: two entries with the same input and
\* response, each with its own reading of datetime.datetime.now(); the two
\* readings are kept apart by name, their values are not modelled
Document(input, output) ==
  [history |-> << [input |-> input, response |-> output, timestamp |-> "now_1"],
                  [input |-> input, response |-> output, timestamp |-> "now_2"] >>]

\* a plausible slip: collection.add(doc), a further document at each call
DocAdd(st, u, doc) == [st EXCEPT ![u] = Append(@, doc)]

\* doc_ref.set(doc): the document under the key is replaced
DocSet(st, u, doc) == [st EXCEPT ![u] = <<doc>>]

Init ==
  /\ req = [r \in Requests |-> [body |-> NoBody, header |-> NoHeader]]
  /\ pc = [r \in Requests |-> "idle"]
  /\ user = [r \in Requests |-> ""]
  /\ only_text = [r \in Requests |-> <<>>]
  /\ openai_response = [r \in Requests |-> ""]
  /\ context = [r \in Requests |-> <<>>]
  /\ memory = <<>>
  /\ store = [u \in UserIds |-> <<>>]
  /\ said = [r \in Requests |-> <<>>]
  /\ ret = [r \in Requests |-> NoRet]
  /\ trace = [r \in Requests |-> <<>>]
  /\ failed = [r \in Requests |-> "none"]
  /\ lastSave = [u \in UserIds |-> <<>>]
  /\ turns = 0

(***************************************************************************)
(* Actions.                                                                *)
(***************************************************************************)
\* the platform delivers a request with body b and header h
Receive(r, b, h, max) ==
  /\ pc[r] = "idle"
  /\ turns < max
  /\ req' = [req EXCEPT ![r] = [body |-> b, header |-> h]]
  /\ pc' = [pc EXCEPT ![r] = "slack_bot"]
  /\ turns' = turns + 1
  /\ UNCHANGED <<user, only_text, openai_response, context, memory, store,
                 said, ret, trace, failed, lastSave>>

\* a plausible slip: an event already seen in another request is acknowledged
\* without being processed
SlackBotDedup(r) ==
  /\ pc[r] = "slack_bot"
  /\ LET b == req[r].body
         h == req[r].header
     IN IF IsUrlVerification(b)
        THEN IF b.has_challenge
             THEN /\ ret' = [ret EXCEPT ![r] = HandshakeResponse(b)]
                  /\ pc' = [pc EXCEPT ![r] = "done"]
                  /\ UNCHANGED failed
             ELSE /\ ret' = [ret EXCEPT ![r] = UnhandledResponse]
                  /\ pc' = [pc EXCEPT ![r] = "done"]
                  /\ failed' = [failed EXCEPT ![r] = "challenge"]
        ELSE IF \/ RetryHeaderTruthy(h)
                \/ \E q \in Requests \ {r} :
                     pc[q] \notin {"idle", "slack_bot"} /\ req[q].body = b
             THEN /\ ret' = [ret EXCEPT ![r] = RetryResponse]
                  /\ pc' = [pc EXCEPT ![r] = "done"]
                  /\ UNCHANGED failed
             ELSE /\ pc' = [pc EXCEPT ![r] = "handler"]
                  /\ UNCHANGED <<ret, failed>>
  /\ UNCHANGED <<req, user, only_text, openai_response, context, memory,
                 store, said, trace, lastSave, turns>>

\* slack_bot up to its return or to handler.handle(request)
SlackBot(r) ==
  /\ pc[r] = "slack_bot"
  /\ LET b == req[r].body
         h == req[r].header
     IN IF IsUrlVerification(b)
        THEN IF b.has_challenge
             THEN /\ ret' = [ret EXCEPT ![r] = HandshakeResponse(b)]
                  /\ pc' = [pc EXCEPT ![r] = "done"]
                  /\ UNCHANGED failed
             ELSE \* body["challenge"] raises KeyError
                  /\ ret' = [ret EXCEPT ![r] = UnhandledResponse]
                  /\ pc' = [pc EXCEPT ![r] = "done"]
                  /\ failed' = [failed EXCEPT ![r] = "challenge"]
        ELSE IF RetryHeaderTruthy(h)
             THEN /\ ret' = [ret EXCEPT ![r] = RetryResponse]
                  /\ pc' = [pc EXCEPT ![r] = "done"]
                  /\ UNCHANGED failed
             ELSE /\ pc' = [pc EXCEPT ![r] = "handler"]
                  /\ UNCHANGED <<ret, failed>>
  /\ UNCHANGED <<req, user, only_text, openai_response, context, memory,
                 store, said, trace, lastSave, turns>>

\* handle_app_mention_events: box.event.user, box.event.text, re.sub
Normalize(r) ==
  /\ pc[r] = "handler"
  /\ LET b == req[r].body
     IN IF b.has_user /\ b.has_text
        THEN /\ user' = [user EXCEPT ![r] = b.user]
             /\ only_text' = [only_text EXCEPT ![r] = ReSub(b.text)]
             /\ trace' = [trace EXCEPT ![r] = Append(@, "normalize")]
             /\ pc' = [pc EXCEPT ![r] = "normalized"]
             /\ UNCHANGED <<ret, failed>>
        ELSE \* Box raises on the missing key
             /\ failed' = [failed EXCEPT ![r] = "normalize"]
             /\ ret' = [ret EXCEPT ![r] = BoltResponse(FALSE)]
             /\ pc' = [pc EXCEPT ![r] = "done"]
             /\ UNCHANGED <<user, only_text, trace>>
  /\ UNCHANGED <<req, openai_response, context, memory, store, said,
                 lastSave, turns>>

\* agent.run(input=only_text) starts: the chain loads the memory window
AgentCall(r) ==
  /\ pc[r] = "normalized"
  /\ context' = [context EXCEPT ![r] = Window(memory)]
  /\ trace' = [trace EXCEPT ![r] = Append(@, "agent_call")]
  /\ pc' = [pc EXCEPT ![r] = "agent"]
  /\ UNCHANGED <<req, user, only_text, openai_response, memory, store,
                 said, ret, failed, lastSave, turns>>

\* agent.run returns out: the chain saves the turn into the shared memory
AgentReturn(r, out) ==
  /\ pc[r] = "agent"
  /\ openai_response' = [openai_response EXCEPT ![r] = out]
  /\ memory' = MemorySave(memory, [input |-> only_text[r], output |-> out,
                                   by |-> user[r]])
  /\ trace' = [trace EXCEPT ![r] = Append(@, "agent_return")]
  /\ pc' = [pc EXCEPT ![r] = "answered"]
  /\ UNCHANGED <<req, user, only_text, context, store, said, ret,
                 failed, lastSave, turns>>

\* a plausible slip: the exception of agent.run is caught and the listener
\* goes on with an empty answer
AgentRaiseSwallowed(r) ==
  /\ pc[r] = "agent"
  /\ failed' = [failed EXCEPT ![r] = "agent"]
  /\ openai_response' = [openai_response EXCEPT ![r] = ""]
  /\ pc' = [pc EXCEPT ![r] = "answered"]
  /\ UNCHANGED <<req, user, only_text, context, memory, store, said, ret,
                 trace, lastSave, turns>>

\* agent.run raises (backend error): the listener is left, bolt answers 500
AgentRaise(r) ==
  /\ pc[r] = "agent"
  /\ failed' = [failed EXCEPT ![r] = "agent"]
  /\ ret' = [ret EXCEPT ![r] = BoltResponse(FALSE)]
  /\ pc' = [pc EXCEPT ![r] = "done"]
  /\ UNCHANGED <<req, user, only_text, openai_response, context, memory,
                 store, said, trace, lastSave, turns>>

\* save_conversation(user, only_text, openai_response)
SaveConversation(r) ==
  /\ pc[r] = "answered"
  /\ store' = DocSet(store, user[r], Document(only_text[r], openai_response[r]))
  /\ lastSave' = [lastSave EXCEPT ![user[r]] =
                    <<[input |-> only_text[r], response |-> openai_response[r]]>>]
  /\ trace' = [trace EXCEPT ![r] = Append(@, "save")]
  /\ pc' = [pc EXCEPT ![r] = "saved"]
  /\ UNCHANGED <<req, user, only_text, openai_response, context, memory,
                 said, ret, failed, turns>>

\* doc_ref.set raises (database error)
SaveRaise(r) ==
  /\ pc[r] = "answered"
  /\ failed' = [failed EXCEPT ![r] = "save"]
  /\ ret' = [ret EXCEPT ![r] = BoltResponse(FALSE)]
  /\ pc' = [pc EXCEPT ![r] = "done"]
  /\ UNCHANGED <<req, user, only_text, openai_response, context, memory,
                 store, said, trace, lastSave, turns>>

\* say(openai_response)
Say(r) ==
  /\ pc[r] = "saved"
  /\ said' = [said EXCEPT ![r] = Append(@, openai_response[r])]
  /\ trace' = [trace EXCEPT ![r] = Append(@, "say")]
  /\ pc' = [pc EXCEPT ![r] = "said"]
  /\ UNCHANGED <<req, user, only_text, openai_response, context, memory,
                 store, ret, failed, lastSave, turns>>

\* say raises (the platform refuses the message)
SayRaise(r) ==
  /\ pc[r] = "saved"
  /\ failed' = [failed EXCEPT ![r] = "say"]
  /\ ret' = [ret EXCEPT ![r] = BoltResponse(FALSE)]
  /\ pc' = [pc EXCEPT ![r] = "done"]
  /\ UNCHANGED <<req, user, only_text, openai_response, context, memory,
                 store, said, trace, lastSave, turns>>

\* a plausible slip: process_before_response left False, the response goes
\* out before the listener has sent the reply
HandlerReturnEarly(r) ==
  /\ pc[r] = "saved"
  /\ ret' = [ret EXCEPT ![r] = BoltResponse(TRUE)]
  /\ trace' = [trace EXCEPT ![r] = Append(@, "respond")]
  /\ pc' = [pc EXCEPT ![r] = "done"]
  /\ UNCHANGED <<req, user, only_text, openai_response, context, memory,
                 store, said, failed, lastSave, turns>>

\* the listener returned: handler.handle(request) yields the response
\* (process_before_response=True) and slack_bot returns it
HandlerReturn(r) ==
  /\ pc[r] = "said"
  /\ ret' = [ret EXCEPT ![r] = BoltResponse(TRUE)]
  /\ trace' = [trace EXCEPT ![r] = Append(@, "respond")]
  /\ pc' = [pc EXCEPT ![r] = "done"]
  /\ UNCHANGED <<req, user, only_text, openai_response, context, memory,
                 store, said, failed, lastSave, turns>>

\* slack_bot has returned: the request and the listener's locals are gone and
\* the instance is free for the next request
Recycle(r, max) ==
  /\ pc[r] = "done"
  /\ turns < max
  /\ req' = [req EXCEPT ![r] = [body |-> NoBody, header |-> NoHeader]]
  /\ pc' = [pc EXCEPT ![r] = "idle"]
  /\ user' = [user EXCEPT ![r] = ""]
  /\ only_text' = [only_text EXCEPT ![r] = <<>>]
  /\ openai_response' = [openai_response EXCEPT ![r] = ""]
  /\ context' = [context EXCEPT ![r] = <<>>]
  /\ said' = [said EXCEPT ![r] = <<>>]
  /\ ret' = [ret EXCEPT ![r] = NoRet]
  /\ trace' = [trace EXCEPT ![r] = <<>>]
  /\ failed' = [failed EXCEPT ![r] = "none"]
  /\ UNCHANGED <<memory, store, lastSave, turns>>

Next ==
  \/ \E r \in Requests, b \in Bodies, h \in Headers : Receive(r, b, h, MaxDeliveries)
  \/ \E r \in Requests : Recycle(r, MaxDeliveries)
  \/ \E r \in Requests : SlackBot(r)
  \/ \E r \in Requests : Normalize(r)
  \/ \E r \in Requests : AgentCall(r)
  \/ \E r \in Requests, out \in AgentOutputs : AgentReturn(r, out)
  \/ \E r \in Requests : AgentRaise(r)
  \/ \E r \in Requests : SaveConversation(r)
  \/ \E r \in Requests : SaveRaise(r)
  \/ \E r \in Requests : Say(r)
  \/ \E r \in Requests : SayRaise(r)
  \/ \E r \in Requests : HandlerReturn(r)

Spec == Init /\ [][Next]_vars

(***************************************************************************)
(* SpecNorm: the normalization alone, over raw texts assembled from pieces *)
(* of mention markup.                                                      *)
(***************************************************************************)
\* "<@U0XXXXXXXXX>"
Token == LtAt \o Id11 \o Gt
IdHead == <<"U", "0", "X", "X", "X">>
IdTail == <<"X", "X", "X", "X", "X", "X">>
Pieces == {LtAt, Gt, Id11, Id10, Token, Hello, IdHead, IdTail}

RECURSIVE Flatten(_)
Flatten(ps) == IF ps = <<>> THEN <<>> ELSE Head(ps) \o Flatten(Tail(ps))

NormTexts ==
  {Flatten(ps) : ps \in UNION {[1..n -> Pieces] : n \in 0..MaxPieces}}

InitNorm ==
  /\ \E t \in NormTexts :
       req = [r \in Requests |->
                IF r = 1 THEN [body |-> EventBody(TRUE, "U123", TRUE, t),
                               header |-> NoHeader]
                ELSE [body |-> NoBody, header |-> NoHeader]]
  /\ pc = [r \in Requests |-> IF r = 1 THEN "handler" ELSE "idle"]
  /\ user = [r \in Requests |-> ""]
  /\ only_text = [r \in Requests |-> <<>>]
  /\ openai_response = [r \in Requests |-> ""]
  /\ context = [r \in Requests |-> <<>>]
  /\ memory = <<>>
  /\ store = [u \in UserIds |-> <<>>]
  /\ said = [r \in Requests |-> <<>>]
  /\ ret = [r \in Requests |-> NoRet]
  /\ trace = [r \in Requests |-> <<>>]
  /\ failed = [r \in Requests |-> "none"]
  /\ lastSave = [u \in UserIds |-> <<>>]
  /\ turns = 1

NextNorm == \E r \in Requests : Normalize(r)

SpecNorm == InitNorm /\ [][NextNorm]_vars

(***************************************************************************)
(* SpecMem: a long run of genuine events of two users, for the memory      *)
(* window.                                                                 *)
(***************************************************************************)
MemBodies ==
  { EventBody(TRUE, "U123", TRUE, MentionText),
    EventBody(TRUE, "U456", TRUE, ScenarioText) }

NextMem ==
  \/ \E r \in Requests, b \in MemBodies : Receive(r, b, NoHeader, MaxTurns)
  \/ \E r \in Requests : Recycle(r, MaxTurns)
  \/ \E r \in Requests : SlackBot(r)
  \/ \E r \in Requests : Normalize(r)
  \/ \E r \in Requests : AgentCall(r)
  \/ \E r \in Requests : AgentReturn(r, "KONNICHIWA")
  \/ \E r \in Requests : SaveConversation(r)
  \/ \E r \in Requests : Say(r)
  \/ \E r \in Requests : HandlerReturn(r)

SpecMem == Init /\ [][NextMem]_vars

(***************************************************************************)
(* Vocabulary of the properties.                                           *)
(***************************************************************************)
Steps == <<"normalize", "agent_call", "agent_return", "save", "say", "respond">>

IsPrefix(a, b) == Len(a) <= Len(b) /\ SubSeq(b, 1, Len(a)) = a

\* request r never reached the listener's agent, store or reply
NothingInvoked(r) == trace[r] = <<>> /\ said[r] = <<>>

InListener(r) ==
  pc[r] \in {"handler", "normalized", "agent", "answered", "saved", "said"}

\* the body of request r has type url_verification
IsHandshake(r) == req[r].body.type = "url_verification"

\* request r carries a non-empty x-slack-retry-num header
RetryNonEmpty(r) == req[r].header.present /\ req[r].header.value # ""

\* a request that is neither a handshake nor a retried delivery
Genuine(r) ==
  /\ pc[r] # "idle"
  /\ ~IsHandshake(r)
  /\ ~RetryNonEmpty(r)

HasToken(s) == \E i \in 1..Len(s) : MatchAt(s, i)

\* the positions of s that lie inside a substring of s matching the pattern
Covered(s) ==
  {p \in 1..Len(s) :
     \E i \in 1..Len(s) : MatchAt(s, i) /\ i <= p /\ p <= i + TokenIdLen + 2}

\* s without the positions in drop, the rest in their order
RECURSIVE Without(_, _, _)
Without(s, drop, i) ==
  IF i > Len(s) THEN <<>>
  ELSE IF i \in drop THEN Without(s, drop, i + 1)
  ELSE <<s[i]>> \o Without(s, drop, i + 1)

\* the positions of s that survive, in increasing order
KeptIdx(s) == Without([i \in 1..Len(s) |-> i], Covered(s), 1)

(***************************************************************************)
(* C1                                                                      *)
(***************************************************************************)
\* C1 as stated: every finished url_verification request, whatever its
\* headers, was answered 200 with Content-Type application/json and a JSON
\* body whose challenge equals the request's challenge, and neither the
\* agent, the store nor the reply sender was invoked.
C1_AsStated ==
  \A r \in Requests :
    (pc[r] = "done" /\ IsHandshake(r)) =>
      /\ ret[r].status = 200
      /\ ret[r].ctype = "application/json"
      /\ JsonLoadsChallenge(ret[r].res) = <<TRUE, req[r].body.challenge>>
      /\ NothingInvoked(r)

\* C1 amended: a url_verification request never reaches the listener; when
\* its body carries a challenge it is answered 200, application/json, with
\* a JSON body whose challenge reads back as the request's challenge, also
\* under a retry header; when the body carries no challenge, slack_bot
\* raises and no 200 response is produced.
C1_Handshake ==
  \A r \in Requests :
    (pc[r] # "idle" /\ IsHandshake(r)) =>
      /\ pc[r] \in {"slack_bot", "done"}
      /\ NothingInvoked(r)
      /\ (pc[r] = "done" /\ req[r].body.has_challenge) =>
           /\ ret[r].kind = "tuple"
           /\ ret[r].status = 200
           /\ ret[r].ctype = "application/json"
           /\ JsonLoadsChallenge(ret[r].res) = <<TRUE, req[r].body.challenge>>
      /\ (pc[r] = "done" /\ ~req[r].body.has_challenge) =>
           /\ ret[r] = UnhandledResponse
           /\ failed[r] = "challenge"

\* a handshake whose challenge needs escaping was answered while a retry
\* header was present
C1_Witness ==
  \E r \in Requests :
    /\ pc[r] = "done"
    /\ IsHandshake(r)
    /\ req[r].body.challenge = <<"a", "\"", "\\">>
    /\ req[r].header = [present |-> TRUE, value |-> "1"]
    /\ ret[r].status = 200

C3_AsStated ==
  \A r \in Requests :
    (pc[r] # "idle" /\ ~IsHandshake(r) /\ req[r].header.present) =>
      /\ ~InListener(r)
      /\ pc[r] = "done" => ret[r] = RetryResponse

\* C3 amended: a request that is not a url_verification and carries the
\* header with a non-empty value is a retried delivery: slack_bot returns
\* statusCode 200 with the body {"message": "No need to resend"} and never
\* dispatches; with the header present but empty the request is dispatched
\* to the event handler like a request without the header.
C3_RetryClassified ==
  \A r \in Requests :
    (pc[r] # "idle" /\ ~IsHandshake(r) /\ req[r].header.present) =>
      IF req[r].header.value # ""
      THEN /\ pc[r] \in {"slack_bot", "done"}
           /\ pc[r] = "done" =>
                /\ ret[r].kind = "dict"
                /\ ret[r].status = 200
                /\ ret[r].body = "{\"message\": \"No need to resend\"}"
      ELSE pc[r] = "done" => ret[r].kind = "bolt"

\* a retried delivery of a well-formed event was acknowledged
C3_Witness ==
  \E r \in Requests :
    /\ pc[r] = "done"
    /\ req[r].body = EventBody(TRUE, "U123", TRUE, MentionText)
    /\ req[r].header = [present |-> TRUE, value |-> "1"]
    /\ ret[r].kind = "dict"

(***************************************************************************)
(* C4                                                                      *)
(***************************************************************************)
\* C4 as stated: the normalized text holds no substring matching the
\* pattern, whatever the raw text.
C4_AsStated ==
  \A r \in Requests : pc[r] = "normalized" => ~HasToken(only_text[r])

\* C4 amended: the normalized text is the raw text without the substrings
\* that match the pattern in the raw text, every other character kept in
\* its order; a token of the normalized text never stood in the raw text in
\* one piece: it was joined by the removal of a token from inside it.
C4_Normalization ==
  \A r \in Requests :
    pc[r] = "normalized" =>
      LET raw == req[r].body.text
          out == only_text[r]
          kept == KeptIdx(raw)
      IN /\ out = Without(raw, Covered(raw), 1)
         /\ Len(out) = Len(kept)
         /\ \A i \in 1..Len(out) : out[i] = raw[kept[i]]
         /\ \A i \in 1..Len(out) :
              MatchAt(out, i) => kept[i + TokenIdLen + 2] - kept[i] > TokenIdLen + 2
         /\ ~HasToken(raw) => out = raw

\* a raw text with a token inside token-like text was normalized: the inner
\* token is gone and the text around it now reads as a token
C4_Witness ==
  \E r \in Requests :
    /\ pc[r] = "normalized"
    /\ req[r].body.text = LtAt \o Token \o Id11 \o Gt
    /\ only_text[r] = Token

(***************************************************************************)
(* C6                                                                      *)
(***************************************************************************)
ScenarioBody == EventBody(TRUE, "U123", TRUE, ScenarioText)

Scenario(r) ==
  /\ req[r].body = ScenarioBody
  /\ ~RetryNonEmpty(r)

C5_AbortOnException ==
  /\ [](\A r \in Requests :
          /\ failed[r] # "none" => (pc[r] = "done" /\ said[r] = <<>>)
          /\ failed[r] = "normalize" =>
               (trace[r] = <<>> /\ (~req[r].body.has_user \/ ~req[r].body.has_text))
          /\ failed[r] = "agent" => trace[r] = SubSeq(Steps, 1, 2)
          /\ failed[r] = "save" => trace[r] = SubSeq(Steps, 1, 3)
          /\ failed[r] = "say" => trace[r] = SubSeq(Steps, 1, 4)
          /\ failed[r] \in {"normalize", "agent", "save", "say"} =>
               ret[r] = BoltResponse(FALSE))
  /\ [][\A r \in Requests :
          /\ (failed[r] = "none" /\ failed'[r] # "none") =>
               (memory' = memory /\ store' = store /\ said' = said)
          /\ (failed[r] # "none" /\ pc'[r] # "idle") =>
               (trace'[r] = trace[r] /\ said'[r] = said[r] /\ failed'[r] = failed[r])]_vars

\* the reply failed after the store write: the document is in the store
C5_Witness ==
  \E r \in Requests :
    /\ failed[r] = "say"
    /\ store[user[r]] = <<Document(only_text[r], openai_response[r])>>
    /\ said[r] = <<>>

(***************************************************************************)
(* C7                                                                      *)
(***************************************************************************)
\* C7: within one genuine request the steps happen in the one order
\* normalize, agent call, agent return, save, say, respond, each at most
\* once; the agent is given the normalized text, the write and the reply
\* carry the agent's answer, and the 200 response of the handler exists
\* only once the reply has been sent.
C7_Sequential ==
  \A r \in Requests :
    /\ IsPrefix(trace[r], Steps)
    /\ Len(said[r]) <= 1
    /\ trace[r] # <<>> => (Genuine(r) /\ only_text[r] = ReSub(req[r].body.text))
    /\ pc[r] = "agent" => trace[r] = SubSeq(Steps, 1, 2)
    /\ pc[r] = "answered" => trace[r] = SubSeq(Steps, 1, 3)
    /\ pc[r] = "saved" => trace[r] = SubSeq(Steps, 1, 4)
    /\ pc[r] = "said" => (trace[r] = SubSeq(Steps, 1, 5) /\ said[r] = <<openai_response[r]>>)
    /\ (ret[r].kind = "bolt" /\ ret[r].status = 200) =>
         (trace[r] = Steps /\ said[r] = <<openai_response[r]>>)
    /\ pc[r] # "done" => ret[r] = NoRet

\* a genuine request was answered 200 after all five steps
C7_Witness ==
  \E r \in Requests :
    /\ Genuine(r)
    /\ pc[r] = "done"
    /\ ret[r] = BoltResponse(TRUE)
    /\ trace[r] = Steps

(***************************************************************************)
(* C8                                                                      *)
(***************************************************************************)
\* C8: the store holds at most one document under each user id; a user
\* without a successful save has none; the document of a user with one has
\* a history of exactly two entries, both with the input and the response
\* of that user's latest save.
C8_StoreOverwrite ==
  \A u \in UserIds :
    /\ Len(store[u]) <= 1
    /\ lastSave[u] = <<>> => store[u] = <<>>
    /\ lastSave[u] # <<>> =>
         /\ Len(store[u]) = 1
         /\ Len(store[u][1].history) = 2
         /\ \A i \in 1..2 :
              /\ store[u][1].history[i].input = lastSave[u][1].input
              /\ store[u][1].history[i].response = lastSave[u][1].response

\* two turns of U123 with different inputs and answers were saved; the
\* document holds the later one
C8_Witness ==
  \E r, q \in Requests :
    /\ r # q
    /\ user[r] = "U123" /\ user[q] = "U123"
    /\ pc[r] = "done" /\ pc[q] = "done"
    /\ trace[r] = Steps /\ trace[q] = Steps
    /\ only_text[r] # only_text[q]
    /\ openai_response[r] # openai_response[q]
    /\ Len(store["U123"]) = 1
    /\ store["U123"][1].history[1].input = only_text[q]

(***************************************************************************)
(* C9                                                                      *)
(***************************************************************************)
\* C9: when the same genuine event was delivered twice, neither delivery
\* with a retry header that counts, and both deliveries ran to their end,
\* each of them called the agent, wrote the store and sent a reply: the
\* memory holds two turns with that input.
C9_NoDeduplication ==
  \A r, q \in Requests :
    (r # q /\ req[r].body = req[q].body /\ Genuine(r) /\ Genuine(q)
       /\ pc[r] = "done" /\ pc[q] = "done"
       /\ failed[r] = "none" /\ failed[q] = "none") =>
      /\ trace[r] = Steps /\ trace[q] = Steps
      /\ Len(said[r]) = 1 /\ Len(said[q]) = 1
      /\ Cardinality({i \in 1..Len(memory) : memory[i].input = only_text[r]}) >= 2
      /\ store[user[r]] # <<>>

\* the same event, delivered twice without a retry header, was processed twice
C9_Witness ==
  \E r, q \in Requests :
    /\ r # q
    /\ req[r].body = req[q].body
    /\ req[r].header = NoHeader /\ req[q].header = NoHeader
    /\ pc[r] = "done" /\ pc[q] = "done"
    /\ trace[r] = Steps /\ trace[q] = Steps
    /\ Len(memory) = 2

(***************************************************************************)
(* C10                                                                     *)
(***************************************************************************)
\* C10: the window an agent call works with never holds more than five
\* turns, and it is the tail, at the time of the call, of the one memory all
\* users share: the whole memory while that has at most five turns, its
\* last five turns afterwards.
C10_SharedWindow ==
  \A r \in Requests :
    /\ Len(context[r]) <= K
    /\ \E m \in Len(context[r])..Len(memory) :
         /\ context[r] = SubSeq(memory, m - Len(context[r]) + 1, m)
         /\ (Len(context[r]) = K \/ m = Len(context[r]))

\* two requests of different users are in flight, the memory has outgrown
\* the window, and the window of one call holds the turn the other request
\* has just added
C10_Witness ==
  \E r, q \in Requests :
    /\ r # q
    /\ user[r] # user[q]
    /\ pc[r] = "agent"
    /\ pc[q] \in {"answered", "saved", "said"}
    /\ Len(memory) > K
    /\ Len(context[r]) = K
    /\ context[r][K] = [input |-> only_text[q], output |-> openai_response[q],
                        by |-> user[q]]

====
